---- MODULE Spec2Model ----
(***************************************************************************)
(* Model of SimplePMM.on_tick, the three-part reconciliation cycle of      *)
(* scripts/multiple_pairs_on_one_exchange_using_external_source.py, and of *)
(* the cache of MarketMakingParamsDataFeed it reads.                       *)
(*                                                                         *)
(* Numbers.  The script computes with Decimal.  Prices are integers here   *)
(* (ticks), ratios are integers in units of 1/RatioScale, and every        *)
(* comparison of the script is made exactly, by cross-multiplication.  A   *)
(* computed order price is an integer in units of 1/PriceDen tick, so that *)
(* the half-way price (a + b) / 2 is exact.  Amounts are in units of 1e-6  *)
(* of the currency.                                                        *)
(***************************************************************************)
EXTENDS Integers, Sequences, FiniteSets, TLC

(***************************************************************************)
(* Configuration of the script (class attributes of SimplePMM).            *)
(***************************************************************************)
RatioScale == 10000
PriceDen == 2 * RatioScale

buy_place_ratio == 50
buy_place_max_distance == 200
buy_cancel_unprofitable_ratio == 25
buy_cancel_outbid_ratio == 300
sell_place_ratio == 5
sell_place_max_distance == 200
sell_cancel_unprofitable_ratio == -5
sell_cancel_outbid_ratio == 300

time_between_orders_for_trading_pair == 5

\* The script configures about two hundred pairs in a Python set, which is
\* iterated in one fixed order during a run; two of them stand for the set,
\* iterated in the order of this sequence.
trading_pairs == <<"DUSK-BTC", "QLC-BTC">>

Pairs == {trading_pairs[i] : i \in 1..Len(trading_pairs)}

\* trading_pair.split("-")
base_cur(tp) == IF tp = "DUSK-BTC" THEN "DUSK" ELSE "QLC"
quote_cur(tp) == "BTC"

\* quote_curs[quote_cur]["size_in_quote_units"], in 1e-6 of the currency
size_in_quote_units == 138
\* size_multiple = 1.10, in percent
size_multiple == 110
\* Decimal(0.99), in percent
balance_margin == 99

(***************************************************************************)
(* Bounds of the model.                                                    *)
(***************************************************************************)
\* the clock stops advancing here (Spec, SpecFault), and here (SpecTime)
MaxTime == 5
MaxTimeLong == 11
\* the most orders get_active_orders returns
MaxOrders == 2
\* the external call of a cycle that fails is among the first MaxFailAt
MaxFailAt == 2

(***************************************************************************)
(* The reference feed's cache and its parsing.                             *)
(*                                                                         *)
(* MarketMakingParamsDataFeed._bid_ask_markets_dict is {} (a dict) until   *)
(* the first successful fetch_bid_ask, and the text of the response body   *)
(* afterwards.  A body is either not JSON, or the JSON text of a payload:  *)
(* a map from some of the pairs to [bid, ask].                             *)
(***************************************************************************)
EmptyDict == [kind |-> "dict", value |-> <<>>]
GarbageText == [kind |-> "garbage", value |-> <<>>]
JsonText(payload) == [kind |-> "json", value |-> payload]

\* json.loads: TypeError for what is no str, JSONDecodeError (a ValueError)
\* for a str that is not JSON, the parsed object otherwise
json_loads(x) ==
  CASE x.kind = "dict" -> [exc |-> "TypeError", value |-> <<>>]
    [] x.kind = "garbage" -> [exc |-> "JSONDecodeError", value |-> <<>>]
    [] OTHER -> [exc |-> "", value |-> x.value]

(***************************************************************************)
(* fetch_bid_ask and the loop around it.                                   *)
(*                                                                         *)
(* What client.request("GET", url) comes to: an exception of the request   *)
(* (kind "error"), or a response with a status and a text.                 *)
(***************************************************************************)
NoResponse == [kind |-> "none", status |-> 0, text |-> EmptyDict]
RequestError == [kind |-> "error", status |-> 0, text |-> EmptyDict]
Response(status, body) == [kind |-> "response", status |-> status, text |-> body]

\* the exception fetch_bid_ask raises, "" when it returns
fetch_bid_ask_raises(r) ==
  IF r.kind = "error" THEN "ClientError"
  ELSE IF r.status # 200 THEN "Exception"
  ELSE ""

\* fetch_bid_ask that stores the text before it looks at the status
cache_after_fetch_any_status(cache, r) == IF r.kind = "response" THEN r.text ELSE cache

\* self._bid_ask_markets_dict = resp_dict, reached when nothing was raised
cache_after_fetch(cache, r) == IF fetch_bid_ask_raises(r) = "" THEN r.text ELSE cache

\* a loop that lets the exception of fetch_bid_ask through
loop_after_exception_uncaught(exc) == IF exc = "CancelledError" THEN "cancelled" ELSE "failed"

\* fetch_bid_ask_loop after `await self.fetch_bid_ask()` raised exc:
\* CancelledError is raised again and ends the loop, any other exception is
\* logged and the loop goes on to its sleep
loop_after_exception(exc) == IF exc = "CancelledError" THEN "cancelled" ELSE "sleeping"

\* fetch_bid_ask_loop after Task.cancel(): CancelledError is thrown into the
\* await the loop is suspended at, the fetch inside the try or the sleep after it
loop_after_cancel(at) ==
  IF at = "fetching" THEN loop_after_exception("CancelledError")
  ELSE IF at = "sleeping" THEN "cancelled"
  ELSE at

\* a task of fetch_bid_ask_loop that has neither ended nor been cancelled
loop_live(at) == at \in {"fetching", "sleeping"}

\* the feed's tasks: its two handles ("None", or "task" for the latest task
\* created), where the latest task of fetch_bid_ask_loop is, and how many
\* earlier tasks of it are live with no handle left to cancel them by
FeedTasks(bid_ask_task, price_task, loop, lost) ==
  [fetch_bid_ask_task |-> bid_ask_task, fetch_price_task |-> price_task,
   fetch_bid_ask_loop |-> loop, lost_loops |-> lost]

\* stop_network that drops the handles and cancels nothing
after_stop_network_without_cancel(f) ==
  [f EXCEPT !.fetch_price_task = "None", !.fetch_bid_ask_task = "None"]

\* stop_network: each handle that is not None has its task cancelled (which
\* does nothing to a task that has ended) and is set to None.  Nothing else
\* than None is ever assigned to _fetch_price_task.
after_stop_network(f) ==
  [f EXCEPT !.fetch_price_task = "None",
            !.fetch_bid_ask_task = "None",
            !.fetch_bid_ask_loop = IF f.fetch_bid_ask_task # "None"
                                   THEN loop_after_cancel(@) ELSE @]

\* start_network: await self.stop_network(), which suspends nowhere, then
\* the handle is bound to a new task of fetch_bid_ask_loop; a task the handle
\* does not refer to any more, and that is live, is lost
after_start_network(f) ==
  LET s == after_stop_network(f)
  IN [s EXCEPT !.fetch_bid_ask_task = "task",
               !.fetch_bid_ask_loop = "fetching",
               !.lost_loops = @ + IF loop_live(s.fetch_bid_ask_loop) THEN 1 ELSE 0]

(***************************************************************************)
(* The decisions of on_tick, one operator per condition of the code.       *)
(***************************************************************************)
\* ref_price_buy <= 0 or ref_price_sell <= 0
ref_not_positive(ref) == ref.bid <= 0 \/ ref.ask <= 0

\* unprofitable that compares with the reference price itself
unprofitable_without_ratio(order, ref) ==
  IF order.is_buy = 1 THEN order.price > ref.bid ELSE order.price < ref.ask

\* Part One: order.price > ref_bid * (1 - buy_cancel_unprofitable_ratio),
\*           order.price < ref_ask * (1 + sell_cancel_unprofitable_ratio)
unprofitable(order, ref) ==
  IF order.is_buy = 1
  THEN order.price * RatioScale > ref.bid * (RatioScale - buy_cancel_unprofitable_ratio)
  ELSE order.price * RatioScale < ref.ask * (RatioScale + sell_cancel_unprofitable_ratio)

\* outbid that takes the other side of the book
outbid_against_other_side(order, ob_bid, ob_ask) ==
  IF order.is_buy = 1
  THEN order.price * RatioScale < ob_ask * (RatioScale - buy_cancel_outbid_ratio)
  ELSE order.price * RatioScale > ob_bid * (RatioScale + sell_cancel_outbid_ratio)

\* Part Two: order.price < orderbook_bid * (1 - buy_cancel_outbid_ratio),
\*           order.price > orderbook_ask * (1 + sell_cancel_outbid_ratio)
outbid(order, ob_bid, ob_ask) ==
  IF order.is_buy = 1
  THEN order.price * RatioScale < ob_bid * (RatioScale - buy_cancel_outbid_ratio)
  ELSE order.price * RatioScale > ob_ask * (RatioScale + sell_cancel_outbid_ratio)

\* order_in_progress that compares with the time of the last order itself
order_in_progress_no_delay(t, last) == t < last

\* time.time() < last_order_time[trading_pair] + time_between_orders_for_trading_pair
order_in_progress(t, last) == t < last + time_between_orders_for_trading_pair

\* buy_price_max and sell_price_min, in units of 1/RatioScale tick
buy_price_max(ref) == ref.bid * (RatioScale - buy_place_ratio)
sell_price_min(ref) == ref.ask * (RatioScale + sell_place_ratio)

\* buy_too_far that compares with buy_price_max itself
buy_too_far_without_distance(ob_bid, bpm) == ob_bid * RatioScale > bpm

\* orderbook_bid > buy_price_max * (1 + buy_place_max_distance)
buy_too_far(ob_bid, bpm) ==
  ob_bid * RatioScale * RatioScale > bpm * (RatioScale + buy_place_max_distance)

\* orderbook_ask < sell_price_min * (1 - sell_place_max_distance)
sell_too_far(ob_ask, spm) ==
  ob_ask * RatioScale * RatioScale < spm * (RatioScale - sell_place_max_distance)

\* buy_price that always goes half way to the top of book
buy_price_always_half_way(ob_bid, bpm) == bpm + ob_bid * RatioScale

\* the price of the buy candidate, in units of 1/PriceDen tick
buy_price(ob_bid, bpm) ==
  IF ob_bid * RatioScale < bpm THEN bpm + ob_bid * RatioScale ELSE 2 * bpm

\* the price of the sell candidate, in units of 1/PriceDen tick
sell_price(ob_ask, spm) ==
  IF ob_ask * RatioScale > spm THEN spm + ob_ask * RatioScale ELSE 2 * spm

\* order_amount = size_in_quote_units * size_multiple / buy_price, a fraction
buy_amount(price) ==
  [num |-> size_in_quote_units * size_multiple * PriceDen, den |-> 100 * price]

\* buy_size_ok that does not look at the balance
buy_size_ok_any_balance(price, available_in_quote) == TRUE

\* order_amount < available_to_buy_in_base * Decimal(0.99), where both sides
\* are quotients by buy_price (not zero): for a positive price it compares
\* the numerators, for a negative one it compares them the other way round
buy_size_ok(price, available_in_quote) ==
  IF price > 0
  THEN size_in_quote_units * size_multiple < available_in_quote * balance_margin
  ELSE size_in_quote_units * size_multiple > available_in_quote * balance_margin

\* order_amount = available_to_sell_in_base, as a fraction
sell_amount(available_in_base) == [num |-> available_in_base, den |-> 1]

\* sell_size_ok that takes any balance that is not empty
sell_size_ok_not_empty(available_in_base) == available_in_base >= 0

\* order_amount >= size_in_quote_units, order_amount the available base balance
sell_size_ok(available_in_base) == available_in_base >= size_in_quote_units

OrderCandidate(tp, side, amount, price) ==
  [trading_pair |-> tp, order_side |-> side, amount |-> amount, price |-> price]

(***************************************************************************)
(* One cycle.  `env` is what on_tick reads at its start and from its       *)
(* collaborators:                                                          *)
(*   t        the clock (time.time())                                      *)
(*   dict     the parsed reference payload                                 *)
(*   ords     the snapshot of open orders, [pair][is_buy] -> set of orders *)
(*   ob_bid, ob_ask   the top of book per pair, as get_price returned it   *)
(*            at the start of the cycle                                    *)
(*   later_bid, later_ask   the top of book of the exchange while the      *)
(*            parts run: the book can have moved since it was read         *)
(*   balance  get_available_balance, per currency                          *)
(*   fail_at  the external call (cancel, adjust_candidates, buy or sell,   *)
(*            counted from 1 in the order of the cycle) that raises,       *)
(*            0 when none does                                             *)
(*   budget_ok  whether adjust_candidates(all_or_none=True) keeps the      *)
(*            candidates (it returns them all, or none)                    *)
(* `c` is the cycle so far: the local counters of on_tick, the two         *)
(* timestamp maps, and the record of what was called.                      *)
(***************************************************************************)
NewCycle(lct, lot) ==
  [status |-> "run", error |-> "", calls |-> 0,
   cancels_in_progress |-> 0,
   cancel_calls |-> <<>>,
   num_cancels_unprofitable |-> 0, num_cancels_outbid |-> 0,
   num_orders |-> 0,
   skip_proposal_for_count |-> 0, skip_proposal_for_time |-> 0,
   skip_proposal_for_distance |-> 0, skip_proposal_for_cancels |-> 0,
   skip_proposal_for_balance |-> 0,
   proposal |-> <<>>, accepted |-> <<>>, placed |-> <<>>,
   part_two_ran |-> FALSE, part_three_ran |-> FALSE,
   evaluated_one |-> {}, evaluated_two |-> {}, evaluated_three |-> {},
   time_skipped |-> {}, count_skipped |-> {},
   last_cancel_time |-> lct, last_order_time |-> lot]

Raise(c, exc) == [c EXCEPT !.status = "raised", !.error = exc]

\* the next external call raises
call_fails(c, env) == c.calls + 1 = env.fail_at

\* a set of orders as the sequence the dict of the snapshot iterates
RECURSIVE InOrder(_)
InOrder(os) ==
  IF os = {} THEN <<>>
  ELSE LET o == CHOOSE x \in os : \A y \in os : x.client_order_id <= y.client_order_id
       IN <<o>> \o InOrder(os \ {o})

\* whether Part One (reason "unprofitable") or Part Two ("outbid") cancels
cancel_rule(reason, order, env) ==
  IF reason = "unprofitable"
  THEN unprofitable(order, env.dict[order.trading_pair])
  ELSE outbid(order, env.ob_bid[order.trading_pair], env.ob_ask[order.trading_pair])

\* cancel_one that stamps the last_cancel_time of every pair
cancel_one_stamping_all_pairs(c, env, order, reason) ==
  IF call_fails(c, env)
  THEN Raise([c EXCEPT !.calls = @ + 1], "ExternalCallFailure")
  ELSE [c EXCEPT
          !.calls = @ + 1,
          !.cancel_calls = Append(@, [client_order_id |-> order.client_order_id,
                                      trading_pair |-> order.trading_pair,
                                      reason |-> reason]),
          !.num_cancels_unprofitable = IF reason = "unprofitable" THEN @ + 1 ELSE @,
          !.num_cancels_outbid = IF reason = "outbid" THEN @ + 1 ELSE @,
          !.last_cancel_time = [tp \in Pairs |-> env.t]]

\* self.cancel(...); num_cancels_... += 1; self.last_cancel_time[...] = time.time()
cancel_one(c, env, order, reason) ==
  IF call_fails(c, env)
  THEN Raise([c EXCEPT !.calls = @ + 1], "ExternalCallFailure")
  ELSE [c EXCEPT
          !.calls = @ + 1,
          !.cancel_calls = Append(@, [client_order_id |-> order.client_order_id,
                                      trading_pair |-> order.trading_pair,
                                      reason |-> reason]),
          !.num_cancels_unprofitable = IF reason = "unprofitable" THEN @ + 1 ELSE @,
          !.num_cancels_outbid = IF reason = "outbid" THEN @ + 1 ELSE @,
          !.last_cancel_time[order.trading_pair] = env.t]

\* cancel_loop that stops cancelling after the first cancel call of the cycle
RECURSIVE cancel_loop_capped(_, _, _, _)
cancel_loop_capped(c, env, os, reason) ==
  IF c.status = "raised" \/ os = <<>> THEN c
  ELSE IF cancel_rule(reason, Head(os), env) /\ c.cancel_calls = <<>>
       THEN cancel_loop_capped(cancel_one(c, env, Head(os), reason), env, Tail(os), reason)
       ELSE cancel_loop_capped(c, env, Tail(os), reason)

\* for client_order_id, order in self.orders[trading_pair][is_buy].items(): ...
RECURSIVE cancel_loop(_, _, _, _)
cancel_loop(c, env, os, reason) ==
  IF c.status = "raised" \/ os = <<>> THEN c
  ELSE IF cancel_rule(reason, Head(os), env)
       THEN cancel_loop(cancel_one(c, env, Head(os), reason), env, Tail(os), reason)
       ELSE cancel_loop(c, env, Tail(os), reason)

\* the body of the loop of Part One and of Part Two for one pair
cancel_pair(c, env, tp, reason) ==
  IF tp \notin DOMAIN env.dict
  THEN Raise(c, "KeyError")
  ELSE LET c1 == IF reason = "unprofitable"
                 THEN [c EXCEPT !.evaluated_one = @ \cup {tp}]
                 ELSE [c EXCEPT !.evaluated_two = @ \cup {tp}]
       IN IF ref_not_positive(env.dict[tp])
          THEN c1
          ELSE cancel_loop(cancel_loop(c1, env, InOrder(env.ords[tp][1]), reason),
                           env, InOrder(env.ords[tp][0]), reason)

\* for trading_pair in self.trading_pairs: ... of Part One and Part Two
RECURSIVE cancel_part(_, _, _, _)
cancel_part(c, env, i, reason) ==
  IF c.status = "raised" \/ i > Len(trading_pairs) THEN c
  ELSE cancel_part(cancel_pair(c, env, trading_pairs[i], reason), env, i + 1, reason)

\* proposal.append(...); num_orders += 1; self.last_order_time[...] = time.time()
accept(c, env, candidate) ==
  [c EXCEPT !.proposal = Append(@, candidate),
            !.accepted = Append(@, candidate),
            !.num_orders = @ + 1,
            !.last_order_time[candidate.trading_pair] = env.t]

\* buy_side_open that forgets the open buy orders
buy_side_open_ignoring_orders(env, tp) == tp # "IRIS-BTC"

\* len(self.orders[trading_pair][1]) == 0 and trading_pair != "IRIS-BTC"
buy_side_open(env, tp) == env.ords[tp][1] = {} /\ tp # "IRIS-BTC"

\* len(self.orders[trading_pair][0]) == 0
sell_side_open(env, tp) == env.ords[tp][0] = {}

\* the buy side of Part Three for one pair; dividing by a zero buy_price raises
buy_side(c, env, tp) ==
  LET bpm == buy_price_max(env.dict[tp])
      price == buy_price(env.ob_bid[tp], bpm)
  IN IF ~buy_side_open(env, tp) THEN c
     ELSE IF buy_too_far(env.ob_bid[tp], bpm)
     THEN [c EXCEPT !.skip_proposal_for_distance = @ + 1]
     ELSE IF price = 0 THEN Raise(c, "DivisionByZero")
     ELSE IF buy_size_ok(price, env.balance[quote_cur(tp)])
     THEN accept(c, env, OrderCandidate(tp, "BUY", buy_amount(price), price))
     ELSE [c EXCEPT !.skip_proposal_for_balance = @ + 1]

\* the sell side of Part Three for one pair
sell_side(c, env, tp) ==
  LET spm == sell_price_min(env.dict[tp])
      price == sell_price(env.ob_ask[tp], spm)
  IN IF c.status = "raised" \/ ~sell_side_open(env, tp) THEN c
     ELSE IF sell_too_far(env.ob_ask[tp], spm)
     THEN [c EXCEPT !.skip_proposal_for_distance = @ + 1]
     ELSE IF sell_size_ok(env.balance[base_cur(tp)])
     THEN accept(c, env, OrderCandidate(tp, "SELL",
                                        sell_amount(env.balance[base_cur(tp)]), price))
     ELSE [c EXCEPT !.skip_proposal_for_balance = @ + 1]

\* place_orders: self.buy(...) or self.sell(...) for each order of the proposal
RECURSIVE place_orders(_, _, _)
place_orders(c, env, proposal) ==
  IF c.status = "raised" \/ proposal = <<>> THEN c
  ELSE IF call_fails(c, env)
       THEN Raise([c EXCEPT !.calls = @ + 1], "ExternalCallFailure")
       ELSE place_orders([c EXCEPT !.calls = @ + 1,
                                   !.placed = Append(@, Head(proposal))],
                         env, Tail(proposal))

\* budget_checker.adjust_candidates(proposal, all_or_none=True): all or none
adjust_candidates(env, proposal) == IF env.budget_ok THEN proposal ELSE <<>>

\* adjust_and_place that gives the cap and the timestamp back when no candidate
\* survives the budget check
adjust_and_place_releasing(c, env) ==
  IF c.status = "raised" THEN c
  ELSE IF call_fails(c, env)
       THEN Raise([c EXCEPT !.calls = @ + 1], "ExternalCallFailure")
       ELSE IF adjust_candidates(env, c.proposal) = <<>> /\ c.proposal # <<>>
       THEN [c EXCEPT !.calls = @ + 1, !.num_orders = 0,
                      !.last_order_time[c.proposal[1].trading_pair] = 0]
       ELSE place_orders([c EXCEPT !.calls = @ + 1], env,
                         adjust_candidates(env, c.proposal))

\* proposal_adjusted = self.adjust_proposal_to_budget(proposal)
\* self.place_orders(proposal_adjusted)
adjust_and_place(c, env) ==
  IF c.status = "raised" THEN c
  ELSE IF call_fails(c, env)
       THEN Raise([c EXCEPT !.calls = @ + 1], "ExternalCallFailure")
       ELSE place_orders([c EXCEPT !.calls = @ + 1], env,
                         adjust_candidates(env, c.proposal))

\* propose_pair without the cap of one proposal per loop
propose_pair_uncapped(c, env, tp) ==
  IF order_in_progress(env.t, c.last_order_time[tp])
  THEN [c EXCEPT !.skip_proposal_for_time = @ + 1, !.time_skipped = @ \cup {tp}]
  ELSE IF tp \notin DOMAIN env.dict
  THEN Raise(c, "KeyError")
  ELSE adjust_and_place(
         sell_side(
           buy_side([c EXCEPT !.proposal = <<>>, !.evaluated_three = @ \cup {tp}],
                    env, tp),
           env, tp),
         env)

\* propose_pair whose cap counts the pairs looked at, not the accepted candidates
propose_pair_capped_by_evaluation(c, env, tp) ==
  IF c.num_orders > 0 \/ c.evaluated_three # {}
  THEN [c EXCEPT !.skip_proposal_for_count = @ + 1, !.count_skipped = @ \cup {tp}]
  ELSE IF order_in_progress(env.t, c.last_order_time[tp])
  THEN [c EXCEPT !.skip_proposal_for_time = @ + 1, !.time_skipped = @ \cup {tp}]
  ELSE IF tp \notin DOMAIN env.dict
  THEN Raise(c, "KeyError")
  ELSE adjust_and_place(
         sell_side(
           buy_side([c EXCEPT !.proposal = <<>>, !.evaluated_three = @ \cup {tp}],
                    env, tp),
           env, tp),
         env)

\* the body of the loop of Part Three for one pair.  The payload's bid and ask
\* are numbers, so the type and NaN checks of buy_price_max and sell_price_min
\* pass.
propose_pair(c, env, tp) ==
  IF c.num_orders > 0
  THEN [c EXCEPT !.skip_proposal_for_count = @ + 1, !.count_skipped = @ \cup {tp}]
  ELSE IF order_in_progress(env.t, c.last_order_time[tp])
  THEN [c EXCEPT !.skip_proposal_for_time = @ + 1, !.time_skipped = @ \cup {tp}]
  ELSE IF tp \notin DOMAIN env.dict
  THEN Raise(c, "KeyError")
  ELSE adjust_and_place(
         sell_side(
           buy_side([c EXCEPT !.proposal = <<>>, !.evaluated_three = @ \cup {tp}],
                    env, tp),
           env, tp),
         env)

\* for trading_pair in self.trading_pairs: ... of Part Three
RECURSIVE propose_part(_, _, _)
propose_part(c, env, i) ==
  IF c.status = "raised" \/ i > Len(trading_pairs) THEN c
  ELSE propose_part(propose_pair(c, env, trading_pairs[i]), env, i + 1)

\* set_cancels_in_progress that never raises the flag
set_cancels_in_progress_never(c, n) == c

\* if num_cancels_... > 0: cancels_in_progress = 1
set_cancels_in_progress(c, n) ==
  IF n > 0 THEN [c EXCEPT !.cancels_in_progress = 1] ELSE c

\* gate_open that stays shut once any cycle has cancelled an order
gate_open_until_first_cancel(c) ==
  c.cancels_in_progress = 0 /\ \A tp \in Pairs : c.last_cancel_time[tp] = 0

\* if cancels_in_progress == 0: before Part Two and before Part Three
gate_open(c) == c.cancels_in_progress = 0

part_one(c, env) ==
  LET c1 == cancel_part(c, env, 1, "unprofitable")
  IN IF c1.status = "raised" THEN c1
     ELSE set_cancels_in_progress(c1, c1.num_cancels_unprofitable)

\* part_two that does not wait for the next cycle after Part One cancelled
part_two_ungated(c, env) ==
  IF c.status = "raised" THEN c
  ELSE LET c1 == cancel_part([c EXCEPT !.part_two_ran = TRUE], env, 1, "outbid")
       IN IF c1.status = "raised" THEN c1
          ELSE set_cancels_in_progress(c1, c1.num_cancels_outbid)

part_two(c, env) ==
  IF c.status = "raised" THEN c
  ELSE LET c1 == IF gate_open(c)
                 THEN cancel_part([c EXCEPT !.part_two_ran = TRUE], env, 1, "outbid")
                 ELSE c
       IN IF c1.status = "raised" THEN c1
          ELSE set_cancels_in_progress(c1, c1.num_cancels_outbid)

\* part_three that does not wait for the next cycle after a cancel
part_three_ungated(c, env) ==
  IF c.status = "raised" THEN c
  ELSE propose_part([c EXCEPT !.part_three_ran = TRUE], env, 1)

\* part_three that asks the exchange for the top of the book again
part_three_rereading(c, env) ==
  IF c.status = "raised" THEN c
  ELSE IF gate_open(c)
       THEN propose_part([c EXCEPT !.part_three_ran = TRUE],
                         [env EXCEPT !.ob_bid = env.later_bid, !.ob_ask = env.later_ask], 1)
       ELSE c

part_three(c, env) ==
  IF c.status = "raised" THEN c
  ELSE IF gate_open(c)
       THEN propose_part([c EXCEPT !.part_three_ran = TRUE], env, 1)
       ELSE c

\* the summary logging at the end of on_tick
summary(c) == IF c.status = "raised" THEN c ELSE [c EXCEPT !.status = "done"]

\* on_tick from Part One to the summary
run_cycle(env, lct, lot) ==
  summary(part_three(part_two(part_one(NewCycle(lct, lot), env), env), env))

(***************************************************************************)
(* What the collaborators can hold.                                        *)
(***************************************************************************)
\* the entries of a payload
GoodQuote == [bid |-> 10, ask |-> 12]
ZeroBidQuote == [bid |-> 0, ask |-> 12]
NegativeAskQuote == [bid |-> 10, ask |-> -1]

GoodPayload == [tp \in Pairs |-> GoodQuote]

\* payloads that quote every pair, at most one of them not positive
QuotedPayloads ==
  {GoodPayload} \cup
  {[GoodPayload EXCEPT ![tp] = q] : tp \in Pairs, q \in {ZeroBidQuote, NegativeAskQuote}}

\* payloads that lack a pair
PartialPayloads == {[tp \in Pairs \ {missing} |-> GoodQuote] : missing \in Pairs}

\* the bodies fetch_bid_ask receives with status 200
QuotedBodies == {JsonText(p) : p \in QuotedPayloads}
FaultyBodies == {GarbageText, JsonText(GoodPayload)} \cup {JsonText(p) : p \in PartialPayloads}

\* the responses of the feed's server: any status with any body
FeedBodies == {GarbageText, JsonText(GoodPayload), JsonText([GoodPayload EXCEPT !["QLC-BTC"] = ZeroBidQuote])}
FeedResponses == {RequestError} \cup {Response(status, body) : status \in {200, 500}, body \in FeedBodies}

\* the limit orders the exchange can hold for this strategy
OrderPool ==
  {[client_order_id |-> 1, trading_pair |-> "DUSK-BTC", is_buy |-> 1, price |-> 9],
   [client_order_id |-> 2, trading_pair |-> "DUSK-BTC", is_buy |-> 1, price |-> 10],
   [client_order_id |-> 3, trading_pair |-> "DUSK-BTC", is_buy |-> 0, price |-> 11],
   [client_order_id |-> 4, trading_pair |-> "DUSK-BTC", is_buy |-> 0, price |-> 13],
   [client_order_id |-> 5, trading_pair |-> "QLC-BTC", is_buy |-> 1, price |-> 10],
   [client_order_id |-> 6, trading_pair |-> "QLC-BTC", is_buy |-> 0, price |-> 13]}

ActiveOrderSets == {S \in SUBSET OrderPool : Cardinality(S) <= MaxOrders}

\* top of book, <<bid, ask>>, per pair
Books ==
  {b \in [Pairs -> {<<9, 12>>, <<10, 13>>, <<11, 13>>, <<9, 11>>}] :
     b["QLC-BTC"] \in {<<9, 12>>, <<10, 13>>}}

\* available balances, in 1e-6 of the currency
Balances ==
  {b \in [{"BTC", "DUSK", "QLC"} -> {0, 200, 1000}] :
     b["BTC"] \in {0, 1000} /\ b["DUSK"] \in {0, 200} /\ b["QLC"] = 200}
RichBalances == {[cur \in {"BTC", "DUSK", "QLC"} |-> IF cur = "BTC" THEN 1000 ELSE 200]}

(***************************************************************************)
(* State.                                                                  *)
(*   feed:      started, bid_ask_markets_json (the cache the property of   *)
(*              that name returns), fetch_bid_ask_loop (where the latest   *)
(*              task of that coroutine is: "none" before the first task,   *)
(*              "fetching", "sleeping", or how it ended), resp (what the   *)
(*              latest request came to), fetch_bid_ask_task and            *)
(*              fetch_price_task (the handles _fetch_bid_ask_task and      *)
(*              _fetch_price_task: "None" or "task"), lost_loops (the live *)
(*              tasks of fetch_bid_ask_loop no handle refers to)           *)
(*   exchange:  active_orders, book (pair -> <<bid, ask>>), balance        *)
(*   clock:     now                                                        *)
(*   SimplePMM: bid_ask_markets_dict, orders, orderbook_bid,               *)
(*              orderbook_ask, last_cancel_time, last_order_time           *)
(*   cyc:       the latest call of on_tick: how it ended, its local        *)
(*              counters and the calls it made                             *)
(***************************************************************************)
VARIABLES started, bid_ask_markets_json, fetch_bid_ask_loop, resp,
          fetch_bid_ask_task, fetch_price_task, lost_loops,
          active_orders, book, balance, now,
          bid_ask_markets_dict, orders, orderbook_bid, orderbook_ask,
          last_cancel_time, last_order_time, cyc

vars == <<started, bid_ask_markets_json, fetch_bid_ask_loop, resp,
          fetch_bid_ask_task, fetch_price_task, lost_loops,
          active_orders, book, balance, now,
          bid_ask_markets_dict, orders, orderbook_bid, orderbook_ask,
          last_cancel_time, last_order_time, cyc>>

task_vars == <<fetch_bid_ask_task, fetch_price_task, lost_loops>>
feed_vars == <<started, bid_ask_markets_json, fetch_bid_ask_loop, resp, task_vars>>
exchange_vars == <<active_orders, book, balance>>
snapshot_vars == <<bid_ask_markets_dict, orders, orderbook_bid, orderbook_ask>>
time_vars == <<last_cancel_time, last_order_time>>

\* the record of a call of on_tick that made no cycle
NoCycle(status, exc, lct, lot) ==
  [NewCycle(lct, lot) EXCEPT !.status = status, !.error = exc]

\* the class body of SimplePMM and MarketMakingParamsDataFeed.__init__, with
\* the exchange in one of the given states
InitWith(order_sets, books, balances) ==
  /\ started = FALSE
  /\ bid_ask_markets_json = EmptyDict
  /\ fetch_bid_ask_loop = "none"
  /\ resp = NoResponse
  /\ fetch_bid_ask_task = "None"
  /\ fetch_price_task = "None"
  /\ lost_loops = 0
  /\ active_orders \in order_sets
  /\ book \in books
  /\ balance \in balances
  /\ now = 0
  /\ bid_ask_markets_dict = <<>>
  /\ orders = [tp \in Pairs |-> [is_buy \in {1, 0} |-> {}]]
  /\ orderbook_bid = <<>>
  /\ orderbook_ask = <<>>
  /\ last_cancel_time = [tp \in Pairs |-> 0]
  /\ last_order_time = [tp \in Pairs |-> now]
  /\ cyc = NoCycle("none", "", last_cancel_time, last_order_time)

\* time passes
clock_advances(steps, horizon) ==
  /\ \E d \in steps : now + d <= horizon /\ now' = now + d
  /\ UNCHANGED <<feed_vars, exchange_vars, snapshot_vars, time_vars, cyc>>

\* time passes without end on a clock that is kept within the horizon: once
\* time.time() is beyond it, the origin of time moves on with the clock.
\* on_tick reads the clock and last_order_time only to compare them in
\* order_in_progress, which a common shift leaves alone, and a timestamp
\* further back than the horizon, itself no shorter than the delay, compares
\* like one at the origin.
clock_moves_on(steps, horizon) ==
  /\ \E d \in steps :
       LET shift == IF now + d > horizon THEN now + d - horizon ELSE 0
           back(stamps) == [tp \in Pairs |-> IF stamps[tp] > shift
                                             THEN stamps[tp] - shift ELSE 0]
       IN /\ now' = now + d - shift
          /\ last_cancel_time' = back(last_cancel_time)
          /\ last_order_time' = back(last_order_time)
  /\ UNCHANGED <<feed_vars, exchange_vars, snapshot_vars, cyc>>

\* the exchange fills, drops or takes orders: get_active_orders returns another
\* set from now on
active_orders_change(order_sets) ==
  /\ \E os \in order_sets : active_orders' = os
  /\ UNCHANGED <<feed_vars, book, balance, now, snapshot_vars, time_vars, cyc>>

\* the feed's tasks as they are
feed_tasks ==
  FeedTasks(fetch_bid_ask_task, fetch_price_task, fetch_bid_ask_loop, lost_loops)

\* the feed's tasks become f
feed_tasks_become(f) ==
  /\ fetch_bid_ask_task' = f.fetch_bid_ask_task
  /\ fetch_price_task' = f.fetch_price_task
  /\ fetch_bid_ask_loop' = f.fetch_bid_ask_loop
  /\ lost_loops' = f.lost_loops

\* start_network: stop_network, then a new task of fetch_bid_ask_loop, which
\* runs up to its first await
start_network ==
  /\ started
  /\ feed_tasks_become(after_start_network(feed_tasks))
  /\ UNCHANGED <<started, bid_ask_markets_json, resp,
                 exchange_vars, now, snapshot_vars, time_vars, cyc>>

\* stop_network: the tasks the handles refer to are cancelled, the handles
\* are set to None
stop_network ==
  /\ feed_tasks_become(after_stop_network(feed_tasks))
  /\ UNCHANGED <<started, bid_ask_markets_json, resp,
                 exchange_vars, now, snapshot_vars, time_vars, cyc>>

\* one attempt of the loop: the request of fetch_bid_ask comes to r; the cache
\* takes the text or fetch_bid_ask raises, and the loop goes to its sleep
fetch_bid_ask(responses) ==
  /\ fetch_bid_ask_loop = "fetching"
  /\ \E r \in responses :
       /\ resp' = r
       /\ bid_ask_markets_json' = cache_after_fetch(bid_ask_markets_json, r)
       /\ fetch_bid_ask_loop' = IF fetch_bid_ask_raises(r) = "" THEN "sleeping"
                                ELSE loop_after_exception(fetch_bid_ask_raises(r))
  /\ UNCHANGED <<started, task_vars, exchange_vars, now, snapshot_vars, time_vars, cyc>>

\* await asyncio.sleep(self._update_interval) is over: the next attempt
sleep_over ==
  /\ fetch_bid_ask_loop = "sleeping"
  /\ fetch_bid_ask_loop' = "fetching"
  /\ UNCHANGED <<started, bid_ask_markets_json, resp, task_vars,
                 exchange_vars, now, snapshot_vars, time_vars, cyc>>

\* on_tick while the feed is not started: start it and return
TickStart ==
  /\ ~started
  /\ started' = TRUE
  /\ cyc' = NoCycle("start", "", last_cancel_time, last_order_time)
  /\ UNCHANGED <<bid_ask_markets_json, fetch_bid_ask_loop, resp, task_vars,
                 exchange_vars, now, snapshot_vars, time_vars>>

\* on_tick when json.loads raises: a TypeError is caught and on_tick returns,
\* any other exception leaves on_tick
TickNoReference ==
  /\ started
  /\ json_loads(bid_ask_markets_json).exc # ""
  /\ cyc' = NoCycle(IF json_loads(bid_ask_markets_json).exc = "TypeError"
                    THEN "no_reference" ELSE "raised",
                    json_loads(bid_ask_markets_json).exc,
                    last_cancel_time, last_order_time)
  /\ UNCHANGED <<feed_vars, exchange_vars, now, snapshot_vars, time_vars>>

\* self.orders as filled from get_active_orders
order_snapshot(active) ==
  [tp \in Pairs |-> [is_buy \in {1, 0} |->
     {o \in active : o.trading_pair = tp /\ o.is_buy = is_buy}]]

\* what a cycle reads; the exchange's book is `later` once the cycle has taken
\* its snapshot of it
cycle_env(parsed, fail_at, budget_ok, later) ==
  [t |-> now, dict |-> parsed, ords |-> order_snapshot(active_orders),
   ob_bid |-> [tp \in Pairs |-> book[tp][1]],
   ob_ask |-> [tp \in Pairs |-> book[tp][2]],
   later_bid |-> [tp \in Pairs |-> later[tp][1]],
   later_ask |-> [tp \in Pairs |-> later[tp][2]],
   balance |-> balance, fail_at |-> fail_at, budget_ok |-> budget_ok]

\* on_tick with a parsed payload: the snapshots, then the three parts, while
\* the exchange's book moves to one of later_books
on_tick(fail_ats, later_books) ==
  /\ started
  /\ json_loads(bid_ask_markets_json).exc = ""
  /\ \E fail_at \in fail_ats, budget_ok \in BOOLEAN, later \in later_books :
       LET env == cycle_env(json_loads(bid_ask_markets_json).value, fail_at, budget_ok, later)
           c == run_cycle(env, last_cancel_time, last_order_time)
       IN /\ bid_ask_markets_dict' = env.dict
          /\ orders' = env.ords
          /\ orderbook_bid' = env.ob_bid
          /\ orderbook_ask' = env.ob_ask
          /\ last_cancel_time' = c.last_cancel_time
          /\ last_order_time' = c.last_order_time
          /\ cyc' = c
          /\ book' = later
  /\ UNCHANGED <<feed_vars, active_orders, balance, now>>

(***************************************************************************)
(* Spec: cycles over the states of the exchange and the quoted payloads,   *)
(* every external call succeeding.                                         *)
(***************************************************************************)
Init == InitWith(ActiveOrderSets, Books, Balances)
AdvanceClock == clock_advances({time_between_orders_for_trading_pair}, MaxTime)
Fetch == fetch_bid_ask({Response(200, body) : body \in QuotedBodies})
TickCycle == on_tick({0}, {book})

Next ==
  \/ start_network
  \/ sleep_over
  \/ AdvanceClock
  \/ Fetch
  \/ TickStart
  \/ TickNoReference
  \/ TickCycle

Spec == Init /\ [][Next]_vars

(***************************************************************************)
(* SpecTime: many cycles on a longer and finer clock, over an exchange     *)
(* without open orders.                                                    *)
(***************************************************************************)
InitTime == InitWith({{}}, Books, Balances)
AdvanceClockFine == clock_advances({1, time_between_orders_for_trading_pair}, MaxTimeLong)
FetchGood == fetch_bid_ask({Response(200, JsonText(GoodPayload))})

NextTime ==
  \/ start_network
  \/ sleep_over
  \/ AdvanceClockFine
  \/ FetchGood
  \/ TickStart
  \/ TickNoReference
  \/ TickCycle

SpecTime == InitTime /\ [][NextTime]_vars

(***************************************************************************)
(* SpecFault: cycles under faults: payloads that lack a configured pair,   *)
(* text that is not JSON, and an external call that raises.                *)
(***************************************************************************)
InitFault == InitWith(ActiveOrderSets, Books, RichBalances)
FetchFaulty == fetch_bid_ask({Response(200, body) : body \in FaultyBodies})
TickCycleFaulty == on_tick(0..MaxFailAt, {book})

NextFault ==
  \/ start_network
  \/ sleep_over
  \/ AdvanceClock
  \/ FetchFaulty
  \/ TickStart
  \/ TickNoReference
  \/ TickCycleFaulty

SpecFault == InitFault /\ [][NextFault]_vars

(***************************************************************************)
(* SpecFeed: the feed's task beside the cycles: fetches that succeed and   *)
(* fail, the sleep between them, stop_network and start_network.           *)
(* SpecFeedLive adds that a sleep of the loop comes to its end.            *)
(***************************************************************************)
InitFeed == InitWith({{}}, Books, RichBalances)
FetchAny == fetch_bid_ask(FeedResponses)

NextFeed ==
  \/ start_network
  \/ stop_network
  \/ FetchAny
  \/ sleep_over
  \/ AdvanceClock
  \/ TickStart
  \/ TickNoReference
  \/ TickCycle

SpecFeed == InitFeed /\ [][NextFeed]_vars
SpecFeedLive == SpecFeed /\ WF_vars(sleep_over)

(***************************************************************************)
(* SpecSnap: cycles during which the exchange's book moves, and between    *)
(* which the feed's task replaces the cache.                               *)
(***************************************************************************)
SnapOrderSets ==
  {os \in ActiveOrderSets :
     Cardinality(os) <= 1 /\ \A o \in os : o.trading_pair = "DUSK-BTC"}
SnapBooks == {b \in Books : b["QLC-BTC"] = <<9, 12>>}
InitSnap == InitWith(SnapOrderSets, SnapBooks, RichBalances)
FetchSnap == fetch_bid_ask({Response(200, body) : body \in FeedBodies \ {GarbageText}})
TickCycleBookMoves == on_tick({0}, SnapBooks)

NextSnap ==
  \/ start_network
  \/ sleep_over
  \/ FetchSnap
  \/ AdvanceClock
  \/ TickStart
  \/ TickNoReference
  \/ TickCycleBookMoves

SpecSnap == InitSnap /\ [][NextSnap]_vars

(***************************************************************************)
(* SpecOrders: cycles between which the open orders of the exchange        *)
(* change.                                                                 *)
(***************************************************************************)
InitOrders == InitWith(SnapOrderSets, SnapBooks, RichBalances)
OrdersChange == active_orders_change(SnapOrderSets)

NextOrders ==
  \/ start_network
  \/ sleep_over
  \/ FetchGood
  \/ AdvanceClock
  \/ OrdersChange
  \/ TickStart
  \/ TickNoReference
  \/ TickCycle

SpecOrders == InitOrders /\ [][NextOrders]_vars

(***************************************************************************)
(* SpecLive: cycles on an exchange that never shows an open order, while   *)
(* time passes without end: time.time() keeps growing.                     *)
(***************************************************************************)
InitLive == InitWith({{}}, SnapBooks, RichBalances)
TimePasses == clock_moves_on({1, time_between_orders_for_trading_pair}, MaxTime)

NextLive ==
  \/ start_network
  \/ sleep_over
  \/ FetchGood
  \/ TimePasses
  \/ TickStart
  \/ TickNoReference
  \/ TickCycle

SpecLive == InitLive /\ [][NextLive]_vars /\ WF_vars(TimePasses)

(***************************************************************************)
(* Reading the record of the latest cycle.                                 *)
(***************************************************************************)
\* the latest on_tick got past the parsing of the payload and took its snapshots
CycleRan ==
  cyc.status = "done" \/ (cyc.status = "raised" /\ cyc.error # "JSONDecodeError")

Range(seq) == {seq[k] : k \in 1..Len(seq)}

CancelsOf(tp) == {x \in Range(cyc.cancel_calls) : x.trading_pair = tp}
CancelsFor(reason) == {x \in Range(cyc.cancel_calls) : x.reason = reason}
AcceptedOf(tp) == {x \in Range(cyc.accepted) : x.trading_pair = tp}
SnapshotOrders == UNION {orders[tp][is_buy] : tp \in Pairs, is_buy \in {1, 0}}

\* the candidates of a side accepted, and placed, for a pair
AcceptedSide(tp, side) == {x \in AcceptedOf(tp) : x.order_side = side}
PlacedSide(tp, side) ==
  {x \in Range(cyc.placed) : x.trading_pair = tp /\ x.order_side = side}

\* the pair got past the loop head in Part Three and has no open order on the
\* side, and the top of the book is within the distance of the side's price
BuyInRange(tp) ==
  /\ tp \in cyc.evaluated_three
  /\ orders[tp][1] = {}
  /\ ~buy_too_far(orderbook_bid[tp], buy_price_max(bid_ask_markets_dict[tp]))
SellInRange(tp) ==
  /\ tp \in cyc.evaluated_three
  /\ orders[tp][0] = {}
  /\ ~sell_too_far(orderbook_ask[tp], sell_price_min(bid_ask_markets_dict[tp]))

(***************************************************************************)
(* C1.  A pair whose reference bid or ask is not positive in a cycle gets  *)
(* no cancel call (Part One, Part Two) and no accepted buy or sell         *)
(* candidate (Part Three) in that cycle.                                   *)
(* Part Three has no such check: the statement fails.                      *)
(***************************************************************************)
C1_NonPositiveReferenceExcluded ==
  cyc.status = "done" =>
    \A tp \in Pairs :
      ref_not_positive(bid_ask_markets_dict[tp]) =>
        CancelsOf(tp) = {} /\ AcceptedOf(tp) = {}

(***************************************************************************)
(* C2.  In every cycle at most one OrderCandidate is accepted, counted     *)
(* over all pairs and both sides.                                          *)
(* A pair can have its buy and its sell candidate accepted in one cycle:   *)
(* the statement fails.                                                    *)
(***************************************************************************)
C2_AtMostOneCandidate == Len(cyc.accepted) <= 1

\* C2 as amended: the candidates accepted in a cycle, which are those handed
\* to adjust_candidates and the only ones that can be placed, are at most one
\* buy and one sell candidate of one single pair, and num_orders counts them.
C2_OneProposalPerCycle ==
  /\ cyc.num_orders = Len(cyc.accepted)
  /\ Len(cyc.accepted) <= 2
  /\ \A i, j \in 1..Len(cyc.accepted) :
       /\ cyc.accepted[i].trading_pair = cyc.accepted[j].trading_pair
       /\ i # j => cyc.accepted[i].order_side # cyc.accepted[j].order_side
  /\ Range(cyc.placed) \subseteq Range(cyc.accepted)
  /\ Len(cyc.placed) <= Len(cyc.accepted)

\* the first pair takes both candidates while the second pair would have
\* qualified as well (no open order, not debounced) and is skipped for count
C2_Witness ==
  /\ cyc.status = "done"
  /\ Len(cyc.accepted) = 2
  /\ Len(cyc.placed) = 2
  /\ cyc.count_skipped = {"QLC-BTC"}
  /\ active_orders = {}

(***************************************************************************)
(* C3.  If Part One cancels at least one order in a cycle, then in that    *)
(* cycle Part Two issues no cancel, Part Three accepts no candidate, no    *)
(* order is placed and last_order_time changes for no pair.                *)
(***************************************************************************)
C3_UnprofitableCancelBlocksTheRest ==
  [][cyc'.num_cancels_unprofitable > 0 =>
       /\ CancelsFor("outbid")' = {}
       /\ cyc'.num_cancels_outbid = 0
       /\ ~cyc'.part_two_ran /\ ~cyc'.part_three_ran
       /\ cyc'.accepted = <<>> /\ cyc'.num_orders = 0
       /\ cyc'.placed = <<>>
       /\ last_order_time' = last_order_time]_vars

\* Part One cancelled an order while the snapshot held an outbid order that
\* Part Two would have cancelled, and a pair was free to take a proposal
C3_Witness ==
  /\ cyc.status = "done"
  /\ cyc.num_cancels_unprofitable > 0
  /\ \E o \in SnapshotOrders :
       /\ ~ref_not_positive(bid_ask_markets_dict[o.trading_pair])
       /\ outbid(o, orderbook_bid[o.trading_pair], orderbook_ask[o.trading_pair])
       /\ ~unprofitable(o, bid_ask_markets_dict[o.trading_pair])
  /\ \E tp \in Pairs :
       /\ orders[tp][0] = {}
       /\ now >= last_order_time[tp] + time_between_orders_for_trading_pair
       /\ sell_size_ok(balance[base_cur(tp)])

(***************************************************************************)
(* C4.  If Part One cancels nothing in a cycle and Part Two cancels at     *)
(* least one order, then Part Three accepts no candidate, no order is      *)
(* placed and last_order_time changes for no pair in that cycle.           *)
(***************************************************************************)
C4_OutbidCancelBlocksProposals ==
  [][(cyc'.num_cancels_unprofitable = 0 /\ cyc'.num_cancels_outbid > 0) =>
       /\ ~cyc'.part_three_ran
       /\ cyc'.accepted = <<>> /\ cyc'.num_orders = 0
       /\ cyc'.placed = <<>>
       /\ last_order_time' = last_order_time]_vars

\* Part Two cancelled an order while a pair was free to take a proposal
C4_Witness ==
  /\ cyc.status = "done"
  /\ cyc.num_cancels_unprofitable = 0
  /\ cyc.num_cancels_outbid > 0
  /\ \E tp \in Pairs :
       /\ orders[tp][0] = {}
       /\ ~ref_not_positive(bid_ask_markets_dict[tp])
       /\ ~sell_too_far(orderbook_ask[tp], sell_price_min(bid_ask_markets_dict[tp]))
       /\ now >= last_order_time[tp] + time_between_orders_for_trading_pair
       /\ sell_size_ok(balance[base_cur(tp)])

(***************************************************************************)
(* C5.  Over any sequence of cycles, no candidate is accepted for a pair   *)
(* at a time t < (the time of the pair's previous accepted proposal) +     *)
(* time_between_orders_for_trading_pair, and a pair skipped for this       *)
(* reason is counted as a time skip.  last_order_time[pair] is the time of *)
(* the latest cycle that accepted a candidate for the pair (it changes in  *)
(* no other step); "previous" is read as: of an earlier cycle, the buy and *)
(* the sell candidate of one cycle being one proposal.                     *)
(***************************************************************************)
C5_Debounce ==
  [][cyc' # cyc =>
       \A tp \in Pairs :
         /\ AcceptedOf(tp)' # {} =>
              /\ now >= last_order_time[tp] + time_between_orders_for_trading_pair
              /\ last_order_time'[tp] = now
         /\ AcceptedOf(tp)' = {} => last_order_time'[tp] = last_order_time[tp]
         /\ (/\ cyc'.part_three_ran
             /\ tp \notin cyc'.count_skipped
             /\ now < last_order_time[tp] + time_between_orders_for_trading_pair)
            => tp \in cyc'.time_skipped
         /\ cyc'.skip_proposal_for_time = Cardinality(cyc'.time_skipped)]_vars

\* a pair is skipped for time because of a proposal of an earlier cycle
\* (its last_order_time is no longer the time of construction), while the
\* other pair, whose own delay since its previous proposal is over, is accepted
C5_Witness ==
  /\ cyc.status = "done"
  /\ \E tp \in cyc.time_skipped, other \in Pairs :
       /\ last_order_time[tp] > 0
       /\ now > last_order_time[tp]
       /\ AcceptedOf(other) # {}
       /\ last_order_time[other] >= 2 * time_between_orders_for_trading_pair

(***************************************************************************)
(* C6.  A pair whose order snapshot holds an open buy order gets no buy    *)
(* candidate in that cycle, and a pair whose snapshot holds an open sell   *)
(* order gets no sell candidate.                                           *)
(***************************************************************************)
C6_NoCandidateBesideOpenOrder ==
  CycleRan =>
    \A x \in Range(cyc.accepted) :
      /\ x.order_side = "BUY" => orders[x.trading_pair][1] = {}
      /\ x.order_side = "SELL" => orders[x.trading_pair][0] = {}

\* Part Three handled a pair that has an open order on one side: it accepted
\* a candidate for the other side only
C6_Witness ==
  /\ cyc.status = "done"
  /\ \E x \in Range(cyc.accepted) :
       /\ x.order_side = "SELL"
       /\ orders[x.trading_pair][1] # {}
       /\ buy_size_ok(1, balance[quote_cur(x.trading_pair)])
       /\ ~buy_too_far(orderbook_bid[x.trading_pair],
                       buy_price_max(bid_ask_markets_dict[x.trading_pair]))

(***************************************************************************)
(* C7.  An accepted buy candidate has price <= buy_price_max =             *)
(* ref_bid * (1 - buy_place_ratio): (buy_price_max + top_of_book.bid) / 2  *)
(* when top_of_book.bid < buy_price_max, buy_price_max otherwise.  An      *)
(* accepted sell candidate has price >= sell_price_min =                   *)
(* ref_ask * (1 + sell_place_ratio): (sell_price_min + top_of_book.ask) / 2*)
(* when top_of_book.ask > sell_price_min, sell_price_min otherwise.        *)
(* A price p is in units of 1/PriceDen and a bound b in 1/RatioScale, with  *)
(* PriceDen = 2 * RatioScale: p <= 2 * b states price <= bound, and        *)
(* p = b + bid * RatioScale states price = (bound + bid) / 2.              *)
(***************************************************************************)
C7_CandidatePrices ==
  CycleRan =>
    \A x \in Range(cyc.accepted) :
      LET ref == bid_ask_markets_dict[x.trading_pair]
          bid == orderbook_bid[x.trading_pair]
          ask == orderbook_ask[x.trading_pair]
          bound == IF x.order_side = "BUY"
                   THEN ref.bid * (RatioScale - buy_place_ratio)
                   ELSE ref.ask * (RatioScale + sell_place_ratio)
      IN IF x.order_side = "BUY"
         THEN /\ x.price <= 2 * bound
              /\ bid * RatioScale < bound => x.price = bound + bid * RatioScale
              /\ bid * RatioScale >= bound => x.price = 2 * bound
         ELSE /\ x.price >= 2 * bound
              /\ ask * RatioScale > bound => x.price = bound + ask * RatioScale
              /\ ask * RatioScale <= bound => x.price = 2 * bound

\* both branches of both sides: a buy and a sell candidate half way to the
\* top of book, or a buy and a sell candidate at the bound
C7_Witness ==
  /\ cyc.status = "done"
  /\ Len(cyc.accepted) = 2
  /\ \A x \in Range(cyc.accepted) :
       IF x.order_side = "BUY"
       THEN orderbook_bid[x.trading_pair] * RatioScale
              >= buy_price_max(bid_ask_markets_dict[x.trading_pair])
       ELSE orderbook_ask[x.trading_pair] * RatioScale
              > sell_price_min(bid_ask_markets_dict[x.trading_pair])

(***************************************************************************)
(* C8.  An error raised while evaluating one pair (the pair is absent from *)
(* the parsed payload) does not abort the cycle: every other configured    *)
(* pair is still evaluated by the phases that run in that cycle, Part One  *)
(* always being one of them, and the cycle reaches its summary.            *)
(* The KeyError of the lookup leaves on_tick: the statement fails.         *)
(***************************************************************************)
C8_PairErrorDoesNotAbort ==
  CycleRan /\ (\E tp \in Pairs : tp \notin DOMAIN bid_ask_markets_dict) =>
    /\ cyc.status = "done"
    /\ \A tp \in Pairs :
         tp \in DOMAIN bid_ask_markets_dict =>
           /\ tp \in cyc.evaluated_one
           /\ cyc.part_two_ran => tp \in cyc.evaluated_two
           /\ cyc.part_three_ran => tp \in cyc.evaluated_three \cup cyc.count_skipped

(***************************************************************************)
(* C9.  When an external call (cancel, adjust_candidates, buy, sell) fails *)
(* during a cycle, the cycle continues with the remaining orders and pairs *)
(* and still reaches its end-of-cycle summary.                             *)
(* Nothing catches the exception of the call: the statement fails.         *)
(***************************************************************************)
C9_ExternalFailureDoesNotAbort ==
  CycleRan /\ cyc.error = "ExternalCallFailure" =>
    /\ cyc.status = "done"
    /\ cyc.evaluated_one = Pairs

(***************************************************************************)
(* C10.  When the payload cannot be parsed at the start of a cycle, the    *)
(* feed having produced no value yet or having returned malformed data,    *)
(* on_tick returns without any cancel or place call and leaves             *)
(* last_cancel_time and last_order_time of every pair unchanged.           *)
(* Malformed text makes json.loads raise JSONDecodeError, which is not a   *)
(* TypeError: on_tick does not return, the statement fails.                *)
(***************************************************************************)
C10_UnparsedPayloadDoesNothing ==
  [][(started /\ json_loads(bid_ask_markets_json).exc # "" /\ cyc' # cyc) =>
       /\ cyc'.status = "no_reference"
       /\ cyc'.calls = 0
       /\ cyc'.cancel_calls = <<>> /\ cyc'.placed = <<>>
       /\ last_cancel_time' = last_cancel_time
       /\ last_order_time' = last_order_time]_vars

(***************************************************************************)
(* C11.  fetch_bid_ask_loop never ends because of a fetch error: an        *)
(* attempt that fails (any exception but the cancellation) takes the loop  *)
(* to its sleep, after which it attempts another fetch; the loop ends only *)
(* when its task is cancelled, and then the cancellation leaves the loop.  *)
(***************************************************************************)
C11_LoopSurvivesFetchErrors ==
  /\ [](fetch_bid_ask_loop \in {"none", "fetching", "sleeping", "cancelled"})
  /\ [][/\ (fetch_bid_ask_loop = "fetching" /\ fetch_bid_ask_loop' # "fetching") =>
             \/ fetch_bid_ask_loop' = "sleeping"
             \/ fetch_bid_ask_loop' = "cancelled" /\ UNCHANGED <<resp, bid_ask_markets_json>>
        /\ (fetch_bid_ask_loop = "sleeping" /\ fetch_bid_ask_loop' # "sleeping") =>
             \/ fetch_bid_ask_loop' = "fetching"
             \/ fetch_bid_ask_loop' = "cancelled" /\ UNCHANGED <<resp, bid_ask_markets_json>>]_vars
  /\ (fetch_bid_ask_loop = "sleeping") ~> (fetch_bid_ask_loop \in {"fetching", "cancelled"})

\* after a failed attempt the loop has slept and is at its next attempt
C11_Witness ==
  /\ fetch_bid_ask_raises(resp) # ""
  /\ fetch_bid_ask_loop = "fetching"

(***************************************************************************)
(* C12.  A failed fetch_bid_ask attempt (request error, or a status other  *)
(* than 200) leaves the cache unchanged; the cache changes only in a       *)
(* successful attempt, to the text of its response, so what on_tick reads  *)
(* through bid_ask_markets_json is the payload of the most recent          *)
(* successful fetch, or the initial empty value; and no fetch error is     *)
(* raised into on_tick.                                                    *)
(***************************************************************************)
C12_FailedFetchKeepsCache ==
  /\ [][/\ (fetch_bid_ask_loop = "fetching" /\ fetch_bid_ask_loop' = "sleeping") =>
             IF resp'.kind = "response" /\ resp'.status = 200
             THEN bid_ask_markets_json' = resp'.text
             ELSE bid_ask_markets_json' = bid_ask_markets_json
        /\ bid_ask_markets_json' # bid_ask_markets_json =>
             /\ fetch_bid_ask_loop = "fetching"
             /\ resp'.kind = "response" /\ resp'.status = 200
             /\ bid_ask_markets_json' = resp'.text
        /\ cyc' # cyc =>
             /\ cyc'.error \notin {"ClientError", "Exception"}
             /\ json_loads(bid_ask_markets_json).exc = "" =>
                  bid_ask_markets_dict' = json_loads(bid_ask_markets_json).value]_vars
  /\ [](bid_ask_markets_json = EmptyDict \/ resp.kind # "none")

\* a cycle has read the payload of an earlier successful fetch although the
\* latest attempt failed with another text in its response
C12_Witness ==
  /\ cyc.status = "done"
  /\ resp.kind = "response" /\ resp.status = 500
  /\ bid_ask_markets_json.kind = "json"
  /\ resp.text # bid_ask_markets_json
  /\ bid_ask_markets_dict = bid_ask_markets_json.value

(***************************************************************************)
(* C13.  Part One has no cap: in one cycle it cancels every open order     *)
(* that meets the unprofitable condition, on every pair with a positive    *)
(* reference; num_cancels_unprofitable is the number of its cancel calls;  *)
(* and when that number is k >= 1 the cycle makes exactly k cancel calls   *)
(* and accepts and places nothing, whatever pairs would qualify for an     *)
(* order.                                                                  *)
(***************************************************************************)
C13_PartOneCancelsAll ==
  cyc.status = "done" =>
    LET due == {o \in SnapshotOrders :
                  /\ ~ref_not_positive(bid_ask_markets_dict[o.trading_pair])
                  /\ unprofitable(o, bid_ask_markets_dict[o.trading_pair])}
        k == cyc.num_cancels_unprofitable
    IN /\ {x.client_order_id : x \in CancelsFor("unprofitable")} =
            {o.client_order_id : o \in due}
       /\ k = Cardinality(due)
       /\ k = Cardinality({i \in 1..Len(cyc.cancel_calls) :
                             cyc.cancel_calls[i].reason = "unprofitable"})
       /\ k >= 1 =>
            /\ Len(cyc.cancel_calls) = k
            /\ cyc.calls = k
            /\ cyc.accepted = <<>> /\ cyc.placed = <<>>

\* two unprofitable cancels on two different pairs, while a pair has its
\* delay over, no open sell order and the balance for a sell order
C13_Witness ==
  /\ cyc.status = "done"
  /\ cyc.num_cancels_unprofitable = 2
  /\ \A tp \in Pairs : CancelsOf(tp) # {}
  /\ cyc.accepted = <<>>
  /\ \E tp \in Pairs :
       /\ orders[tp][0] = {}
       /\ sell_size_ok(balance[base_cur(tp)])
       /\ ~order_in_progress(now, last_order_time[tp])

(***************************************************************************)
(* C15.  In Part One, for every pair with a positive reference bid and     *)
(* ask, an open buy order of the snapshot is cancelled if and only if      *)
(* order.price > ref_bid * (1 - buy_cancel_unprofitable_ratio), and an     *)
(* open sell order if and only if                                          *)
(* order.price < ref_ask * (1 + sell_cancel_unprofitable_ratio).           *)
(***************************************************************************)
C15_UnprofitableRule ==
  cyc.status = "done" =>
    \A tp \in Pairs :
      ~(bid_ask_markets_dict[tp].bid <= 0 \/ bid_ask_markets_dict[tp].ask <= 0) =>
        /\ \A o \in orders[tp][1] :
             (\E x \in CancelsFor("unprofitable") : x.client_order_id = o.client_order_id)
             <=> o.price * 10000 > bid_ask_markets_dict[tp].bid * (10000 - 25)
        /\ \A o \in orders[tp][0] :
             (\E x \in CancelsFor("unprofitable") : x.client_order_id = o.client_order_id)
             <=> o.price * 10000 < bid_ask_markets_dict[tp].ask * (10000 - 5)

\* Part One cancels one open order and keeps another: a buy order at the
\* reference bid is cancelled, or a sell order under the reference ask is
C15_Witness ==
  /\ cyc.status = "done"
  /\ \E o \in SnapshotOrders, kept \in SnapshotOrders :
       /\ o.is_buy = 1 /\ o.price = bid_ask_markets_dict[o.trading_pair].bid
       /\ \E x \in CancelsFor("unprofitable") : x.client_order_id = o.client_order_id
       /\ ~ref_not_positive(bid_ask_markets_dict[kept.trading_pair])
       /\ \A x \in CancelsFor("unprofitable") : x.client_order_id # kept.client_order_id

(***************************************************************************)
(* C16.  In Part Two, when it runs (Part One cancelled nothing), for every *)
(* pair with a positive reference bid and ask, an open buy order of the    *)
(* snapshot is cancelled if and only if                                    *)
(* order.price < orderbook_bid * (1 - buy_cancel_outbid_ratio), and an     *)
(* open sell order if and only if                                          *)
(* order.price > orderbook_ask * (1 + sell_cancel_outbid_ratio).           *)
(***************************************************************************)
C16_OutbidRule ==
  (cyc.status = "done" /\ cyc.part_two_ran) =>
    /\ cyc.num_cancels_unprofitable = 0
    /\ \A tp \in Pairs :
         ~(bid_ask_markets_dict[tp].bid <= 0 \/ bid_ask_markets_dict[tp].ask <= 0) =>
           /\ \A o \in orders[tp][1] :
                (\E x \in CancelsFor("outbid") : x.client_order_id = o.client_order_id)
                <=> o.price * 100 < orderbook_bid[tp] * (100 - 3)
           /\ \A o \in orders[tp][0] :
                (\E x \in CancelsFor("outbid") : x.client_order_id = o.client_order_id)
                <=> o.price * 100 > orderbook_ask[tp] * (100 + 3)

\* Part Two cancels an outbid buy order and keeps a sell order of the same
\* cycle that is within the ratio of the top of the book
C16_Witness ==
  /\ cyc.status = "done" /\ cyc.part_two_ran
  /\ \E o \in SnapshotOrders, kept \in SnapshotOrders :
       /\ o.is_buy = 1 /\ kept.is_buy = 0
       /\ \E x \in CancelsFor("outbid") : x.client_order_id = o.client_order_id
       /\ ~ref_not_positive(bid_ask_markets_dict[kept.trading_pair])
       /\ \A x \in CancelsFor("outbid") : x.client_order_id # kept.client_order_id

(***************************************************************************)
(* C14.  Within one cycle the three parts use, for each pair, the          *)
(* reference bid and ask and the top-of-book bid and ask read once at the  *)
(* start of the cycle: what the cycle decides is what these snapshots      *)
(* (with the open orders, the balances and the clock) determine, whatever  *)
(* the book of the exchange has become since, and a later update of the    *)
(* feed's cache changes neither the snapshot nor the decisions.            *)
(***************************************************************************)
C14_OneSnapshotPerCycle ==
  [][/\ (cyc' # cyc /\ cyc'.status = "done") =>
          /\ bid_ask_markets_dict' = json_loads(bid_ask_markets_json).value
          /\ \A tp \in Pairs : /\ orderbook_bid'[tp] = book[tp][1]
                               /\ orderbook_ask'[tp] = book[tp][2]
          /\ \E budget_ok \in BOOLEAN :
               cyc' = run_cycle([t |-> now, dict |-> bid_ask_markets_dict',
                                 ords |-> orders',
                                 ob_bid |-> orderbook_bid', ob_ask |-> orderbook_ask',
                                 later_bid |-> orderbook_bid', later_ask |-> orderbook_ask',
                                 balance |-> balance,
                                 fail_at |-> 0, budget_ok |-> budget_ok],
                                last_cancel_time, last_order_time)
     /\ bid_ask_markets_json' # bid_ask_markets_json =>
          UNCHANGED <<cyc, snapshot_vars, time_vars>>]_vars

\* a cycle has accepted a candidate for a pair whose top of book moved on both
\* sides after the snapshot, and the feed's cache has been replaced since
C14_Witness ==
  /\ cyc.status = "done"
  /\ \E tp \in Pairs :
       /\ AcceptedOf(tp) # {}
       /\ book[tp][1] # orderbook_bid[tp]
       /\ book[tp][2] # orderbook_ask[tp]
  /\ bid_ask_markets_json # JsonText(bid_ask_markets_dict)

(***************************************************************************)
(* C17.  In Part Three all candidates accepted in one cycle belong to one  *)
(* pair, at most one buy and at most one sell (0 to 2 candidates).  Once a *)
(* pair has a candidate accepted, every later pair of the iteration is     *)
(* skipped and counted as a count skip.  A pair that accepted nothing      *)
(* (skipped for time, distance, balance or an open order) does not stop    *)
(* the later pairs from being evaluated: the accepting pair is the first   *)
(* pair in the order of trading_pairs that meets the conditions.           *)
(***************************************************************************)
C17_FirstAcceptingPairOnly ==
  (cyc.status = "done" /\ cyc.part_three_ran) =>
    LET N == Len(trading_pairs)
        accepting == {i \in 1..N : AcceptedOf(trading_pairs[i]) # {}}
        skipped == {i \in 1..N : trading_pairs[i] \in cyc.count_skipped}
    IN /\ Cardinality(accepting) <= 1
       /\ Len(cyc.accepted) <= 2
       /\ \A side \in {"BUY", "SELL"} :
            Cardinality({k \in 1..Len(cyc.accepted) : cyc.accepted[k].order_side = side}) <= 1
       /\ cyc.skip_proposal_for_count = Cardinality(skipped)
       /\ \A i \in 1..N :
            /\ i \in skipped <=> \E a \in accepting : a < i
            /\ i \notin skipped =>
                 \/ trading_pairs[i] \in cyc.time_skipped
                 \/ trading_pairs[i] \in cyc.evaluated_three

\* the first pair was evaluated and accepted nothing, the second pair was
\* evaluated after it and has a candidate accepted
C17_Witness ==
  /\ cyc.status = "done" /\ cyc.part_three_ran
  /\ trading_pairs[1] \in cyc.evaluated_three
  /\ AcceptedOf(trading_pairs[1]) = {}
  /\ AcceptedOf(trading_pairs[2]) # {}
  /\ cyc.count_skipped = {}

C19_BuySizeAndBalance ==
  [][(cyc' # cyc /\ cyc'.status = "done") =>
       \A tp \in Pairs :
         /\ AcceptedSide(tp, "BUY")' # {} => BuyInRange(tp)'
         /\ BuyInRange(tp)' =>
              /\ AcceptedSide(tp, "BUY")' # {} <=> 138 * 110 < 99 * balance'["BTC"]
              /\ \A x \in AcceptedSide(tp, "BUY")' :
                   /\ x.amount = [num |-> 138 * 110 * PriceDen, den |-> 100 * x.price]
                   /\ x.price > 0
                   /\ x.amount.num < 99 * balance'["BTC"] * PriceDen
              /\ AcceptedSide(tp, "BUY")' = {} =>
                   /\ cyc'.skip_proposal_for_balance >= 1
                   /\ PlacedSide(tp, "BUY")' = {}
                   /\ AcceptedSide(tp, "SELL")' = {} =>
                        last_order_time'[tp] = last_order_time[tp]]_vars

\* a buy side in range dropped for balance, with nothing accepted for the pair
\* and with the pair's delay over: last_order_time stays as constructed
C19_Witness ==
  /\ cyc.status = "done"
  /\ \E tp \in Pairs :
       /\ BuyInRange(tp)
       /\ AcceptedOf(tp) = {}
       /\ cyc.skip_proposal_for_balance >= 1
       /\ balance["BTC"] = 0
       /\ last_order_time[tp] = 0
       /\ now >= time_between_orders_for_trading_pair

(***************************************************************************)
(* C20.  A sell candidate that passed the distance check has amount equal  *)
(* to the whole available balance of the pair's base currency and is       *)
(* accepted if and only if that amount >= size_in_quote_units of the       *)
(* pair's quote currency; otherwise a balance skip is counted and no sell  *)
(* order is placed.  skip_proposal_for_balance counts the sides dropped    *)
(* for balance.                                                            *)
(***************************************************************************)
C20_SellSizeAndBalance ==
  cyc.status = "done" =>
    /\ \A tp \in Pairs :
         /\ AcceptedSide(tp, "SELL") # {} => SellInRange(tp)
         /\ SellInRange(tp) =>
              /\ AcceptedSide(tp, "SELL") # {} <=> balance[base_cur(tp)] >= 138
              /\ \A x \in AcceptedSide(tp, "SELL") :
                   x.amount.num = balance[base_cur(tp)] * x.amount.den
              /\ AcceptedSide(tp, "SELL") = {} =>
                   /\ cyc.skip_proposal_for_balance >= 1
                   /\ PlacedSide(tp, "SELL") = {}
    /\ cyc.skip_proposal_for_balance =
         Cardinality({tp \in Pairs : BuyInRange(tp) /\ AcceptedSide(tp, "BUY") = {}})
         + Cardinality({tp \in Pairs : SellInRange(tp) /\ AcceptedSide(tp, "SELL") = {}})

\* in one cycle the sell side of one pair is dropped for balance and the sell
\* candidate of the next pair is accepted with the whole base balance
C20_Witness ==
  /\ cyc.status = "done"
  /\ \E tp \in Pairs, other \in Pairs :
       /\ SellInRange(tp) /\ balance[base_cur(tp)] < size_in_quote_units
       /\ AcceptedSide(tp, "SELL") = {}
       /\ cyc.skip_proposal_for_balance >= 1
       /\ \E x \in AcceptedSide(other, "SELL") : x.amount.num = balance[base_cur(other)]

(***************************************************************************)
(* C21.  last_cancel_time and last_order_time are changed only by the      *)
(* action they record: last_cancel_time[p] changes only in a cycle that    *)
(* cancelled an order of pair p, and is then the current time;             *)
(* last_order_time[p] changes only in a cycle that accepted a candidate    *)
(* for pair p, and is then the current time; the entries of every other    *)
(* pair stay as they were; and, the clock not going back, no entry ever    *)
(* decreases.                                                              *)
(***************************************************************************)
C21_TimestampsFollowActions ==
  [][\A tp \in Pairs :
       /\ last_cancel_time'[tp] # last_cancel_time[tp] =>
            /\ cyc' # cyc
            /\ CancelsOf(tp)' # {}
       /\ last_order_time'[tp] # last_order_time[tp] =>
            /\ cyc' # cyc
            /\ AcceptedOf(tp)' # {}
       /\ cyc' # cyc =>
            /\ CancelsOf(tp)' # {} => last_cancel_time'[tp] = now
            /\ CancelsOf(tp)' = {} => last_cancel_time'[tp] = last_cancel_time[tp]
            /\ AcceptedOf(tp)' # {} => last_order_time'[tp] = now
            /\ AcceptedOf(tp)' = {} => last_order_time'[tp] = last_order_time[tp]
       /\ last_cancel_time'[tp] >= last_cancel_time[tp]
       /\ last_order_time'[tp] >= last_order_time[tp]
       /\ now' >= now]_vars

\* one pair had a candidate accepted and no cancel, the other an order
\* cancelled in the latest cycle and no candidate: each map holds the time of
\* its own action for its own pair only
C21_Witness ==
  /\ cyc.status = "done"
  /\ \E tp \in Pairs, other \in Pairs :
       /\ last_order_time[tp] > 0 /\ last_cancel_time[tp] = 0
       /\ CancelsOf(other) # {}
       /\ last_cancel_time[other] = now /\ now > 0
       /\ last_order_time[other] = 0

(***************************************************************************)
(* C22.  The cancel-in-progress flag and the counters are local to a       *)
(* cycle: a cycle in which neither Part One nor Part Two cancels anything  *)
(* runs Part Three, whatever earlier cycles did, and a cycle runs Part     *)
(* Three only then.  Every cycle starts again from Part One, for every     *)
(* pair, on a new order snapshot that holds exactly the orders active at   *)
(* that time, none carried over from the snapshot of the cycle before.     *)
(***************************************************************************)
C22_CycleScopedState ==
  [][/\ (cyc' # cyc /\ cyc'.status = "done") =>
          /\ cyc'.part_three_ran <=> cyc'.cancel_calls = <<>>
          /\ cyc'.cancels_in_progress = IF cyc'.cancel_calls = <<>> THEN 0 ELSE 1
          /\ cyc'.evaluated_one = Pairs
          /\ cyc'.num_cancels_unprofitable = Cardinality(CancelsFor("unprofitable")')
          /\ cyc'.num_cancels_outbid = Cardinality(CancelsFor("outbid")')
          /\ cyc'.num_orders = Len(cyc'.accepted)
     /\ ((cyc' # cyc /\ cyc'.status = "done") \/ orders' # orders) =>
          \A tp \in Pairs, is_buy \in {1, 0} :
            orders'[tp][is_buy] =
              {o \in active_orders : o.trading_pair = tp /\ o.is_buy = is_buy}]_vars

\* after a cycle that cancelled the order of a pair, a cycle on a snapshot
\* without that order cancels nothing, runs Part Three and accepts a candidate
C22_Witness ==
  /\ cyc.status = "done"
  /\ cyc.cancel_calls = <<>> /\ cyc.part_three_ran
  /\ cyc.accepted # <<>>
  /\ \E tp \in Pairs :
       /\ last_cancel_time[tp] > 0
       /\ orders[tp][1] = {} /\ orders[tp][0] = {}

(***************************************************************************)
(* C23.  When adjust_candidates (all or none) returns no candidate for the *)
(* batch accepted in a cycle, no order is placed in that cycle, yet the    *)
(* pair's last_order_time is already the current time and the cap of one   *)
(* proposal is used up: no other pair has a candidate accepted, every      *)
(* later pair is skipped for count, and in the cycles before               *)
(* last_order_time + time_between_orders_for_trading_pair the pair itself  *)
(* is skipped.                                                             *)
(***************************************************************************)
C23_RejectedBatchStillCounts ==
  [][/\ (cyc' # cyc /\ cyc'.status = "done"
         /\ cyc'.accepted # <<>> /\ cyc'.placed = <<>>) =>
          \E i \in 1..Len(trading_pairs) :
            /\ AcceptedOf(trading_pairs[i])' # {}
            /\ last_order_time'[trading_pairs[i]] = now
            /\ cyc'.num_orders >= 1
            /\ \A j \in 1..Len(trading_pairs) :
                 /\ j # i => AcceptedOf(trading_pairs[j])' = {}
                 /\ j > i => trading_pairs[j] \in cyc'.count_skipped
     /\ (cyc.status = "done" /\ cyc.accepted # <<>> /\ cyc.placed = <<>>
         /\ cyc' # cyc /\ cyc'.part_three_ran) =>
          \A tp \in Pairs :
            (AcceptedOf(tp) # {}
             /\ now < last_order_time[tp] + time_between_orders_for_trading_pair) =>
              /\ AcceptedOf(tp)' = {}
              /\ tp \in cyc'.time_skipped \cup cyc'.count_skipped]_vars

\* the batch of the first pair was accepted and none of it placed: the pair's
\* last_order_time is the current time and the next pair was skipped for count
C23_Witness ==
  /\ cyc.status = "done"
  /\ cyc.accepted # <<>> /\ cyc.placed = <<>>
  /\ AcceptedOf(trading_pairs[1]) # {}
  /\ last_order_time[trading_pairs[1]] = now
  /\ trading_pairs[2] \in cyc.count_skipped
  /\ cyc.skip_proposal_for_count = 1

(***************************************************************************)
(* C24.  In every cycle each open order of the snapshot gets at most one   *)
(* cancel call, and no cycle has both a cancel call and an order placed:   *)
(* an order cancelled as unprofitable in Part One is never cancelled as    *)
(* outbid in Part Two of the same cycle.                                   *)
(***************************************************************************)
C24_OneCancelPerOrder ==
  cyc.status = "done" =>
    /\ \A i, j \in 1..Len(cyc.cancel_calls) :
         cyc.cancel_calls[i].client_order_id = cyc.cancel_calls[j].client_order_id => i = j
    /\ \A x \in Range(cyc.cancel_calls) :
         \E o \in SnapshotOrders : o.client_order_id = x.client_order_id
    /\ {x.client_order_id : x \in CancelsFor("unprofitable")}
         \cap {x.client_order_id : x \in CancelsFor("outbid")} = {}
    /\ CancelsFor("unprofitable") = {} \/ CancelsFor("outbid") = {}
    /\ cyc.cancel_calls # <<>> => cyc.placed = <<>> /\ cyc.accepted = <<>>

\* Part One cancelled an order that is also outbid by the book of the
\* snapshot, once, while the other pair could have had a sell order
C24_Witness ==
  /\ cyc.status = "done"
  /\ Len(cyc.cancel_calls) = 1
  /\ \E o \in SnapshotOrders :
       /\ \E x \in CancelsFor("unprofitable") : x.client_order_id = o.client_order_id
       /\ outbid(o, orderbook_bid[o.trading_pair], orderbook_ask[o.trading_pair])
       /\ \E tp \in Pairs \ {o.trading_pair} :
            /\ orders[tp][0] = {}
            /\ sell_size_ok(balance[base_cur(tp)])
            /\ ~order_in_progress(now, last_order_time[tp])

(***************************************************************************)
(* C25.  No starvation under the cap of one proposal a cycle: over cycles  *)
(* without end, while no order is open (so no cycle cancels) and time      *)
(* keeps passing, a pair that has a positive reference, an open side       *)
(* whose price is within the distance and the balance for it, is led to a  *)
(* cycle that accepts a candidate for it.                                  *)
(***************************************************************************)
\* the pair has what Part Three asks of it on a side, the delay apart
Qualifies(tp) ==
  LET parsed == json_loads(bid_ask_markets_json)
  IN /\ started /\ parsed.exc = ""
     /\ active_orders = {}
     /\ tp \in DOMAIN parsed.value
     /\ ~ref_not_positive(parsed.value[tp])
     /\ LET bpm == buy_price_max(parsed.value[tp])
             spm == sell_price_min(parsed.value[tp])
         IN \/ /\ tp # "IRIS-BTC"
               /\ ~buy_too_far(book[tp][1], bpm)
               /\ buy_price(book[tp][1], bpm) > 0
               /\ buy_size_ok(buy_price(book[tp][1], bpm), balance[quote_cur(tp)])
            \/ /\ ~sell_too_far(book[tp][2], spm)
               /\ sell_size_ok(balance[base_cur(tp)])

C25_NoStarvation ==
  \A tp \in Pairs :
    ([]<><<TickCycle>>_vars) =>
      (Qualifies(tp) ~> (cyc.status = "done" /\ AcceptedOf(tp) # {}))

(***************************************************************************)
(* C26.  Through any calls of start_network and stop_network the feed has  *)
(* at most one live task of fetch_bid_ask_loop, and none it has no handle  *)
(* for: start_network cancels the task it had before it creates a new      *)
(* one; stop_network leaves both handles None and no task of the loop      *)
(* uncancelled; a second stop_network changes nothing.                     *)
(***************************************************************************)
\* the tasks of fetch_bid_ask_loop that are live
LiveLoops == lost_loops + IF loop_live(fetch_bid_ask_loop) THEN 1 ELSE 0

C26_AtMostOneLiveLoop ==
  /\ [](/\ LiveLoops <= 1
        /\ lost_loops = 0
        /\ fetch_price_task = "None"
        /\ fetch_bid_ask_task = "None" => ~loop_live(fetch_bid_ask_loop)
        /\ LET stopped == after_stop_network(feed_tasks)
               restarted == after_start_network(feed_tasks)
           IN /\ stopped.fetch_bid_ask_task = "None"
              /\ stopped.fetch_price_task = "None"
              /\ ~loop_live(stopped.fetch_bid_ask_loop)
              /\ stopped.lost_loops = 0
              /\ after_stop_network(stopped) = stopped
              /\ restarted.fetch_bid_ask_task = "task"
              /\ loop_live(restarted.fetch_bid_ask_loop)
              /\ restarted.lost_loops = 0)
  /\ [][/\ (fetch_bid_ask_task = "task" /\ fetch_bid_ask_task' = "None") =>
             /\ fetch_bid_ask_loop' = loop_after_cancel(fetch_bid_ask_loop)
             /\ ~loop_live(fetch_bid_ask_loop')
             /\ UNCHANGED <<bid_ask_markets_json, resp>>
        /\ (fetch_bid_ask_task = "None" /\ fetch_bid_ask_task' = "task") =>
             /\ started
             /\ fetch_bid_ask_loop' = "fetching"]_vars

\* stop_network has cancelled a task of the loop that had made a request:
\* both handles are None and the loop is cancelled
C26_Witness ==
  /\ fetch_bid_ask_task = "None" /\ fetch_price_task = "None"
  /\ fetch_bid_ask_loop = "cancelled"
  /\ resp # NoResponse
  /\ LiveLoops = 0

====
